---- MODULE Spec2Model ----
(***************************************************************************)
(* A model of the decorators package.                                      *)
(*                                                                         *)
(* decorators/converter.py: the ConversionWrapper, its two                 *)
(* _TypeConverterFactory registries, the union dispatchers, the argument   *)
(* converter and the wrapped callables and properties it produces.         *)
(* Python values are records [ty, hist]: ty is the runtime class and hist  *)
(* the sequence of converters and methods the value has been through, each *)
(* entry naming the operation, the instance it was handed and the class of *)
(* the value it was applied to.  User converters are therefore injective   *)
(* and never the identity.  Calls of a wrapped function pass their         *)
(* arguments positionally; the methods and converters of the model never   *)
(* raise, so every error in a call comes from the wrapping machinery.      *)
(*                                                                         *)
(* decorators/forwarder.py: AForwarder instances and the targets they      *)
(* hold (a heap of target instances, referred to by position), the         *)
(* members ForwardWrapper makes of the methods and properties of the       *)
(* target class, and the class statement under _ForwarderMeta.             *)
(*                                                                         *)
(* Spec follows one ConversionWrapper, SpecLookup repeated lookups on its  *)
(* input factory, SpecForwarder the forwarders.                            *)
(***************************************************************************)
EXTENDS Integers, Sequences, FiniteSets, TLC

\* ------------------------------------------------------------------------
\* Bounds of the model
\* ------------------------------------------------------------------------
MaxRetLen == 1      \* most keys of a return-converter mapping
MaxInLen == 2       \* most keys of an input-converter mapping
MaxLookups == 3     \* most union lookups made on one input factory
MaxHeap == 2        \* most target instances alive at once
MaxFwds == 2        \* most forwarder instances alive at once
MaxOps == 3         \* most forwarder operations in one run

\* ------------------------------------------------------------------------
\* Types, annotations and values
\* ------------------------------------------------------------------------
\* Runtime classes.  bool is a subclass of int, as in Python.
Classes == {"int", "bool", "str", "NoneType"}

\* typing.List[int]: a legal annotation that is not a class.
NonClasses == {"List"}

\* issubclass(a, b) for two classes
IsSubclass(a, b) == a = b \/ (a = "bool" /\ b = "int")

\* An annotation: kind "empty" is inspect.Parameter.empty / Signature.empty,
\* "None" the literal None, "type" a single type, "union" Union[...] / X | Y.
AnnEmpty == [kind |-> "empty", args |-> <<>>]
AnnNone == [kind |-> "None", args |-> <<>>]
AnnType(t) == [kind |-> "type", args |-> <<t>>]
AnnUnion(a, b) == [kind |-> "union", args |-> <<a, b>>]

\* Absence of an instance argument (a one-argument converter call).
NoInst == [ty |-> "-", hist |-> <<>>]
\* The Python value None.
PyNone == [ty |-> "NoneType", hist |-> <<>>]
\* A fresh value of runtime class t.
Val(t) == [ty |-> t, hist |-> <<>>]
\* The instance a method is called on.
Obj == [ty |-> "A", hist |-> <<>>]

\* isinstance(value, source_type)
IsInstance(v, t) == v.ty \in Classes /\ IsSubclass(v.ty, t)

\* ------------------------------------------------------------------------
\* User converters.  A converter registered for source type src on side
\* ("ret" or "in") is named <<side, src>>; arity is its parameter count.
\* ------------------------------------------------------------------------
\* The class of a converter's result (the fixtures' bool, str and int).
ConvOut(side, src) ==
    IF side = "in"
    THEN (IF src = "int" THEN "bool" ELSE IF src = "bool" THEN "str" ELSE "int")
    ELSE (IF src = "str" THEN "bool" ELSE "str")

\* _Converter.__call__: self._convert(value)
ConverterCall(c, v) ==
    [ty |-> ConvOut(c.side, c.src),
     hist |-> Append(v.hist, [op |-> <<c.side, c.src>>, inst |-> NoInst,
                              from |-> v.ty])]

\* _UnboundConverter.__call__: self._convert(instance, value)
UnboundConverterCall(c, inst, v) ==
    [ty |-> ConvOut(c.side, c.src),
     hist |-> Append(v.hist, [op |-> <<c.side, c.src>>, inst |-> inst,
                              from |-> v.ty])]

\* ------------------------------------------------------------------------
\* _TypeConverterFactory
\* ------------------------------------------------------------------------
\* fixup_none on a registry key or a union member: None becomes NoneType.
FixupNoneKey(ann) == IF ann.kind = "None" THEN "NoneType" ELSE ann.args[1]

\* fixup_none on an annotation.
fixup_none(ann) == IF ann.kind = "None" THEN AnnType("NoneType") ELSE ann

\* is_union: get_origin(annotation) in _UnionTypes
is_union(ann) == ann.kind = "union"

\* is_two_arg: len(inspect.signature(converter).parameters) == 2
is_two_arg(arity) == arity = 2

\* A mapping passed to the constructor: "omitted" is the default None,
\* otherwise entries is the dict in insertion order.
Omitted == [given |-> FALSE, entries |-> <<>>]
Given(es) == [given |-> TRUE, entries |-> es]

\* FactoryInit with the union check made on the first key only.
FactoryInit_FirstKeyOnly(side, m) ==
    IF ~m.given
    THEN [status |-> "TypeError", reason |-> "not iterable", convs |-> <<>>]
    ELSE IF Len(m.entries) > 0 /\ is_union(m.entries[1].key)
    THEN [status |-> "TypeError", reason |-> "union key", convs |-> <<>>]
    ELSE [status |-> "ok", reason |-> "",
          convs |-> [i \in 1..Len(m.entries) |->
                       [src |-> IF m.entries[i].key.kind = "None" THEN "NoneType"
                                ELSE m.entries[i].key.args[1],
                        side |-> side,
                        unbound |-> m.entries[i].arity = 2]]]

\* _TypeConverterFactory.__init__: the outcome of building one registry.
\* Iterating None raises TypeError; a union key raises TypeError; otherwise
\* every entry becomes a _Converter or an _UnboundConverter, in dict order.
\* (The private _noop_converter, which __init__ filters out, is never among
\* the converters the mappings of this model register.)
FactoryInit(side, m) ==
    IF ~m.given
    THEN [status |-> "TypeError", reason |-> "not iterable", convs |-> <<>>]
    ELSE IF \E i \in 1..Len(m.entries) : is_union(m.entries[i].key)
    THEN [status |-> "TypeError", reason |-> "union key", convs |-> <<>>]
    ELSE [status |-> "ok", reason |-> "",
          convs |-> [i \in 1..Len(m.entries) |->
                       [src |-> FixupNoneKey(m.entries[i].key),
                        side |-> side,
                        unbound |-> is_two_arg(m.entries[i].arity)]]]

\* The type converters get_type_converter can return.  kind is the class:
\* "noop" (_noop_converter), "conv" (_Converter), "unbound"
\* (_UnboundConverter), "union", "unbound_union", "mixed_union"; "TypeError"
\* stands for the lookup raising.  convs are the converters it holds, in the
\* order of its _converters dict.
NoopTC == [kind |-> "noop", convs |-> <<>>]
ErrorTC == [kind |-> "TypeError", convs |-> <<>>]

\* isinstance(converter, _UnboundTypeConverter)
IsUnboundTypeConverter(tc) == tc.kind \in {"unbound", "unbound_union", "mixed_union"}

\* any(issubclass(used_type, source_type) for used_type in used_types):
\* the generator stops at the first subclass; issubclass raises TypeError on
\* a member that is not a class.
AnySubclassRaises(used, src) ==
    \E j \in 1..Len(used) :
        /\ used[j] \notin Classes
        /\ \A k \in 1..(j - 1) : ~IsSubclass(used[k], src)

AnySubclass(used, src) == \E j \in 1..Len(used) : IsSubclass(used[j], src)

\* create_union_converter keeping only the converters registered for a
\* member of the union itself.
create_union_converter_ExactMembers(convs, ann) ==
    LET used_converters ==
            SelectSeq(convs, LAMBDA c : \E j \in 1..Len(ann.args) : ann.args[j] = c.src)
        unbound == {used_converters[i].unbound : i \in 1..Len(used_converters)}
    IN  IF \E i \in 1..Len(convs) : AnySubclassRaises(ann.args, convs[i].src)
        THEN ErrorTC
        ELSE IF used_converters = <<>> THEN NoopTC
        ELSE IF unbound = {TRUE}
        THEN [kind |-> "unbound_union", convs |-> used_converters]
        ELSE IF TRUE \in unbound
        THEN [kind |-> "mixed_union", convs |-> used_converters]
        ELSE [kind |-> "union", convs |-> used_converters]

\* create_union_converter, uncached: the registry's converters whose source
\* type has a subclass among the union's members, kept in registry order.
create_union_converter(convs, ann) ==
    LET used_types == ann.args
        used_converters == SelectSeq(convs, LAMBDA c : AnySubclass(used_types, c.src))
        unbound == {used_converters[i].unbound : i \in 1..Len(used_converters)}
    IN  IF \E i \in 1..Len(convs) : AnySubclassRaises(used_types, convs[i].src)
        THEN ErrorTC
        ELSE IF used_converters = <<>> THEN NoopTC
        ELSE IF unbound = {TRUE}
        THEN [kind |-> "unbound_union", convs |-> used_converters]
        ELSE IF TRUE \in unbound
        THEN [kind |-> "mixed_union", convs |-> used_converters]
        ELSE [kind |-> "union", convs |-> used_converters]

\* The key functools.cache files a union annotation under: unions compare
\* and hash by their set of members.
CacheKey(ann) == {ann.args[i] : i \in 1..Len(ann.args)}

\* @cache on create_union_converter: a hit returns the stored dispatcher, a
\* miss computes it.
CachedUnionConverter(convs, cache, ann) ==
    IF \E e \in cache : e.key = CacheKey(ann)
    THEN (CHOOSE e \in cache : e.key = CacheKey(ann)).tc
    ELSE create_union_converter(convs, ann)

\* The cache after that lookup: a result is stored, an exception is not.
CacheAfter(convs, cache, ann) ==
    IF ~is_union(fixup_none(ann)) \/ (\E e \in cache : e.key = CacheKey(ann))
       \/ create_union_converter(convs, ann).kind = "TypeError"
    THEN cache
    ELSE cache \cup {[key |-> CacheKey(ann), tc |-> create_union_converter(convs, ann)]}

\* A registry lookup that also accepts a key the annotation is a subclass of.
RegistryGet_Subclass(convs, ann) ==
    IF ann.kind = "type"
       /\ (\E i \in 1..Len(convs) : IsSubclass(ann.args[1], convs[i].src))
    THEN LET c == convs[CHOOSE i \in 1..Len(convs) :
                            IsSubclass(ann.args[1], convs[i].src)]
         IN  [kind |-> IF c.unbound THEN "unbound" ELSE "conv", convs |-> <<c>>]
    ELSE NoopTC

\* self._converters.get(annotation, _noop_converter)
RegistryGet(convs, ann) ==
    IF ann.kind = "type" /\ (\E i \in 1..Len(convs) : convs[i].src = ann.args[1])
    THEN LET c == convs[CHOOSE i \in 1..Len(convs) : convs[i].src = ann.args[1]]
         IN  [kind |-> IF c.unbound THEN "unbound" ELSE "conv", convs |-> <<c>>]
    ELSE NoopTC

\* get_type_converter
get_type_converter(convs, cache, annotation) ==
    LET ann == fixup_none(annotation)
    IN  IF is_union(ann)
        THEN CachedUnionConverter(convs, cache, ann)
        ELSE RegistryGet(convs, ann)

\* ------------------------------------------------------------------------
\* Calling a type converter
\* ------------------------------------------------------------------------
\* The last converter of a dispatcher whose source type the value is an
\* instance of.
FirstMatch_Last(tc, v) ==
    IF \E i \in 1..Len(tc.convs) : IsInstance(v, tc.convs[i].src)
    THEN CHOOSE i \in 1..Len(tc.convs) :
            /\ IsInstance(v, tc.convs[i].src)
            /\ \A k \in (i + 1)..Len(tc.convs) : ~IsInstance(v, tc.convs[k].src)
    ELSE 0

\* The first converter of a dispatcher whose source type the value is an
\* instance of (0 when there is none): the for loop over _converters.items().
FirstMatch(tc, v) ==
    IF \E i \in 1..Len(tc.convs) : IsInstance(v, tc.convs[i].src)
    THEN CHOOSE i \in 1..Len(tc.convs) :
            /\ IsInstance(v, tc.convs[i].src)
            /\ \A k \in 1..(i - 1) : ~IsInstance(v, tc.convs[k].src)
    ELSE 0

\* _UnionConverter.__call__(value)
UnionConverterCall(tc, v) ==
    IF FirstMatch(tc, v) = 0 THEN v
    ELSE ConverterCall(tc.convs[FirstMatch(tc, v)], v)

\* _UnboundUnionConverter.__call__(instance, value)
UnboundUnionConverterCall(tc, inst, v) ==
    IF FirstMatch(tc, v) = 0 THEN v
    ELSE UnboundConverterCall(tc.convs[FirstMatch(tc, v)], inst, v)

\* _MixedUnionConverter.__call__ without the isinstance test on the
\* converter: every converter is handed the instance.
MixedUnionConverterCall_AlwaysInstance(tc, inst, v) ==
    IF FirstMatch(tc, v) = 0 THEN v
    ELSE UnboundConverterCall(tc.convs[FirstMatch(tc, v)], inst, v)

\* _MixedUnionConverter.__call__(instance, value)
MixedUnionConverterCall(tc, inst, v) ==
    IF FirstMatch(tc, v) = 0 THEN v
    ELSE IF tc.convs[FirstMatch(tc, v)].unbound
    THEN UnboundConverterCall(tc.convs[FirstMatch(tc, v)], inst, v)
    ELSE ConverterCall(tc.convs[FirstMatch(tc, v)], v)

\* converter(value) for a type converter that is no _UnboundTypeConverter
CallBound(tc, v) ==
    IF tc.kind = "noop" THEN v
    ELSE IF tc.kind = "conv" THEN ConverterCall(tc.convs[1], v)
    ELSE UnionConverterCall(tc, v)

\* converter(instance, value) for an _UnboundTypeConverter
CallUnbound(tc, inst, v) ==
    IF tc.kind = "unbound" THEN UnboundConverterCall(tc.convs[1], inst, v)
    ELSE IF tc.kind = "unbound_union" THEN UnboundUnionConverterCall(tc, inst, v)
    ELSE MixedUnionConverterCall(tc, inst, v)

\* ------------------------------------------------------------------------
\* ConversionWrapper: construction
\* ------------------------------------------------------------------------
\* ConversionWrapper.__init__: the return factory is built first, then the
\* input factory; the first TypeError ends the construction.
WrapperInit(return_converters, input_converters) ==
    LET r == FactoryInit("ret", return_converters)
        i == FactoryInit("in", input_converters)
    IN  IF r.status # "ok"
        THEN [status |-> r.status, reason |-> r.reason, ret |-> <<>>, inp |-> <<>>]
        ELSE IF i.status # "ok"
        THEN [status |-> i.status, reason |-> i.reason, ret |-> <<>>, inp |-> <<>>]
        ELSE [status |-> "ok", reason |-> "", ret |-> r.convs, inp |-> i.convs]

\* ------------------------------------------------------------------------
\* ConversionWrapper: callables
\* ------------------------------------------------------------------------
\* The input conversions of _get_callable_converters: one type converter per
\* parameter of the signature, in parameter order.
Conversions(w, cache, params) ==
    [i \in 1..Len(params) |-> get_type_converter(w.inp, cache, params[i].ann)]

\* _get_callable_converters and the choice of shim in convert_callable.
\* kind "same" is `return method`; the others are the five wrapped closures.
convert_callable(w, cin, cret, sig) ==
    LET conversions == Conversions(w, cin, sig.params)
        raises == \E i \in 1..Len(conversions) : conversions[i].kind = "TypeError"
        has_input == \E i \in 1..Len(conversions) : conversions[i].kind # "noop"
        return_converter == get_type_converter(w.ret, cret, sig.ret)
    IN  IF raises \/ return_converter.kind = "TypeError"
        THEN [kind |-> "TypeError", ret |-> NoopTC, conversions |-> <<>>]
        ELSE IF return_converter.kind = "noop"
        THEN (IF ~has_input
              THEN [kind |-> "same", ret |-> NoopTC, conversions |-> <<>>]
              ELSE [kind |-> "input_only", ret |-> NoopTC,
                    conversions |-> conversions])
        ELSE IF IsUnboundTypeConverter(return_converter)
        THEN (IF ~has_input
              THEN [kind |-> "unbound_return_only", ret |-> return_converter,
                    conversions |-> <<>>]
              ELSE [kind |-> "unbound_both", ret |-> return_converter,
                    conversions |-> conversions])
        ELSE (IF ~has_input
              THEN [kind |-> "return_only", ret |-> return_converter,
                    conversions |-> <<>>]
              ELSE [kind |-> "both", ret |-> return_converter,
                    conversions |-> conversions])

\* The caches after convert_callable: parameters are looked up in order, the
\* return annotation last and only if no parameter lookup raised.
RECURSIVE CacheAfterParams(_, _, _, _)
CacheAfterParams(w, cache, params, i) ==
    IF i > Len(params) THEN cache
    ELSE IF get_type_converter(w.inp, cache, params[i].ann).kind = "TypeError"
    THEN cache
    ELSE CacheAfterParams(w, CacheAfter(w.inp, cache, params[i].ann), params, i + 1)

CacheRetAfter(w, cin, cret, sig) ==
    IF \E i \in 1..Len(sig.params) :
          Conversions(w, cin, sig.params)[i].kind = "TypeError"
    THEN cret
    ELSE CacheAfter(w.ret, cret, sig.ret)

\* The original method: it returns its parameter `a`, marked as having been
\* through the method and with the first argument the method received when
\* the method has an instance parameter.
MethodCall(params, args) ==
    LET ia == CHOOSE i \in 1..Len(params) : params[i].name = "a"
        inst == IF params[1].name # "a" THEN args[1] ELSE NoInst
    IN  [ty |-> args[ia].ty,
         hist |-> Append(args[ia].hist, [op |-> <<"call", "method">>, inst |-> inst,
                                         from |-> args[ia].ty])]

\* _ArgsConverter.__call__ returning the bound arguments unconverted.
ArgsConverterCall_Unconverted(params, conversions, args) ==
    IF Len(args) < Len(params)
    THEN [status |-> "KeyError", args |-> <<>>]
    ELSE [status |-> "ok", args |-> args]

\* _ArgsConverter.__call__ on positional arguments: bind without defaults,
\* instance = arguments.get('self', None), then every name of the
\* conversions is read from the bound arguments and converted.
ArgsConverterCall(params, conversions, args) ==
    LET instance == IF \E i \in 1..Len(args) : params[i].name = "self"
                    THEN args[CHOOSE i \in 1..Len(args) : params[i].name = "self"]
                    ELSE PyNone
    IN  IF Len(args) < Len(params)
        THEN [status |-> "KeyError", args |-> <<>>]
        ELSE [status |-> "ok",
              args |-> [i \in 1..Len(args) |->
                          IF IsUnboundTypeConverter(conversions[i])
                          THEN CallUnbound(conversions[i], instance, args[i])
                          ELSE CallBound(conversions[i], args[i])]]

\* A call of what convert_callable returned, with positional arguments.
WrappedCall(params, wr, args) ==
    LET conv == ArgsConverterCall(params, wr.conversions, args)
    IN  IF wr.kind = "return_only"
        THEN [status |-> "ok", value |-> CallBound(wr.ret, MethodCall(params, args))]
        ELSE IF wr.kind = "unbound_return_only"
        THEN [status |-> "ok",
              value |-> CallUnbound(wr.ret, args[1], MethodCall(params, args))]
        ELSE IF conv.status # "ok"
        THEN [status |-> conv.status, value |-> PyNone]
        ELSE IF wr.kind = "input_only"
        THEN [status |-> "ok", value |-> MethodCall(params, conv.args)]
        ELSE IF wr.kind = "unbound_both"
        THEN [status |-> "ok",
              value |-> CallUnbound(wr.ret, args[1], MethodCall(params, conv.args))]
        ELSE [status |-> "ok",
              value |-> CallBound(wr.ret, MethodCall(params, conv.args))]

\* ------------------------------------------------------------------------
\* ConversionWrapper: properties
\* ------------------------------------------------------------------------
\* _get_property_converters: an annotation that is None is introspected from
\* the accessor; an accessor that is absent or unannotated leaves it None.
GetAnnotation(prop, get_annotation) ==
    IF get_annotation.kind = "None" /\ prop.hasGet THEN prop.getAnn
    ELSE get_annotation

SetAnnotation(prop, set_annotation) ==
    IF set_annotation.kind = "None" /\ prop.hasSet THEN prop.setAnn
    ELSE set_annotation

\* convert_property: the getter and the setter are each kept ("orig") or
\* replaced by a closure calling the converter with ("unbound") or without
\* ("conv") the instance; the original property is returned when both are
\* kept.
convert_property(w, cin, cret, prop, get_annotation, set_annotation) ==
    LET get_converter ==
            get_type_converter(w.ret, cret, GetAnnotation(prop, get_annotation))
        set_converter ==
            get_type_converter(w.inp, cin, SetAnnotation(prop, set_annotation))
        getter == IF ~prop.hasGet \/ get_converter.kind = "noop" THEN "orig"
                  ELSE IF IsUnboundTypeConverter(get_converter) THEN "unbound"
                  ELSE "conv"
        setter == IF ~prop.hasSet \/ set_converter.kind = "noop" THEN "orig"
                  ELSE IF IsUnboundTypeConverter(set_converter) THEN "unbound"
                  ELSE "conv"
    IN  IF get_converter.kind = "TypeError" \/ set_converter.kind = "TypeError"
        THEN [kind |-> "TypeError", getter |-> "orig", setter |-> "orig",
              getc |-> NoopTC, setc |-> NoopTC]
        ELSE [kind |-> IF getter = "orig" /\ setter = "orig" THEN "same" ELSE "new",
              getter |-> getter, setter |-> setter,
              getc |-> get_converter, setc |-> set_converter]

\* ConversionWrapper.property handing set_annotation on as it was given.
PropertyDecorator_NoDefault(w, cin, cret, prop, get_annotation, set_annotation) ==
    convert_property(w, cin, cret, prop, get_annotation, set_annotation)

\* ConversionWrapper.property: set_annotation = set_annotation or
\* get_annotation, then convert_property with both as keywords.
PropertyDecorator(w, cin, cret, prop, get_annotation, set_annotation) ==
    convert_property(w, cin, cret, prop, get_annotation,
                     IF set_annotation.kind = "None" THEN get_annotation
                     ELSE set_annotation)

\* The caches after convert_property: the getter's lookup comes first.
PropCacheRetAfter(w, cret, prop, get_annotation) ==
    CacheAfter(w.ret, cret, GetAnnotation(prop, get_annotation))

PropCacheInAfter(w, cin, cret, prop, get_annotation, set_annotation) ==
    IF get_type_converter(w.ret, cret, GetAnnotation(prop, get_annotation)).kind
          = "TypeError"
    THEN cin
    ELSE CacheAfter(w.inp, cin, SetAnnotation(prop, set_annotation))

\* Reading the converted property on an instance whose attribute holds v.
PropertyGet(prop, cp, inst, v) ==
    IF ~prop.hasGet THEN [status |-> "AttributeError", value |-> PyNone]
    ELSE IF cp.getter = "orig" THEN [status |-> "ok", value |-> v]
    ELSE IF cp.getter = "unbound"
    THEN [status |-> "ok", value |-> CallUnbound(cp.getc, inst, v)]
    ELSE [status |-> "ok", value |-> CallBound(cp.getc, v)]

\* Assigning v to the converted property: what the original setter stores.
PropertySet(prop, cp, inst, v) ==
    IF ~prop.hasSet THEN [status |-> "AttributeError", value |-> PyNone]
    ELSE IF cp.setter = "orig" THEN [status |-> "ok", value |-> v]
    ELSE IF cp.setter = "unbound"
    THEN [status |-> "ok", value |-> CallUnbound(cp.setc, inst, v)]
    ELSE [status |-> "ok", value |-> CallBound(cp.setc, v)]

\* ------------------------------------------------------------------------
\* The inputs the model draws from
\* ------------------------------------------------------------------------
Arities == {1, 2}
RetKeys == {AnnType("bool"), AnnNone, AnnUnion("int", "str")}
InKeys == {AnnType("int"), AnnType("bool"), AnnUnion("int", "str")}

\* The dicts with at most n entries over the given keys (a dict has no key
\* twice), and the omitted mapping.
Mappings(keys, n) ==
    {Omitted} \cup
    {Given(es) : es \in
        {q \in UNION {[1..k -> [key : keys, arity : Arities]] : k \in 0..n} :
            \A i, j \in 1..Len(q) : i # j => q[i].key # q[j].key}}

ParamAnns == {AnnEmpty, AnnType("int"), AnnType("bool"),
              AnnUnion("bool", "int"), AnnUnion("int", "bool"),
              AnnUnion("bool", "str"), AnnUnion("List", "NoneType")}
RetAnns == {AnnEmpty, AnnType("bool"), AnnNone}
FirstNames == {"", "self", "this"}
SigSources == {"introspect", "string", "function"}

\* def method([first,] a: annA [, b=0]) -> ret
Params(first, annA, hasB) ==
    (IF first = "" THEN <<>>
     ELSE <<[name |-> first, ann |-> AnnEmpty, default |-> FALSE]>>)
    \o <<[name |-> "a", ann |-> annA, default |-> FALSE]>>
    \o (IF hasB THEN <<[name |-> "b", ann |-> AnnEmpty, default |-> TRUE]>>
        ELSE <<>>)

Functions ==
    {[params |-> Params(first, annA, hasB), ret |-> r, sigsrc |-> src] :
        first \in FirstNames, annA \in ParamAnns, hasB \in BOOLEAN,
        r \in RetAnns, src \in SigSources}

\* inspect.signature(method, eval_str=True), of the method itself or of the
\* function or `def foo<string>: pass` handed to ConversionWrapper.signature.
SignatureOf(f) == [params |-> f.params, ret |-> f.ret]

Values == {Val("int"), Val("bool"), Val("str")}

\* The positional argument lists the original method accepts: the instance
\* when it has one, a value for a, and b given or left to its default.
ArgLists(params) ==
    {(IF params[1].name # "a" THEN <<Obj>> ELSE <<>>) \o <<x>> \o rest :
        x \in Values,
        rest \in IF params[Len(params)].default THEN {<<>>, <<Val("int")>>}
                 ELSE {<<>>}}

PropAnnsGet == {AnnNone, AnnType("bool")}
PropAnnsSet == {AnnNone, AnnType("int")}

\* property(fget, fset) with the accessors' own annotations (None when
\* unannotated), and how it is converted: convert(prop) or
\* convert.property(G, S)(prop).
Properties ==
    {[hasGet |-> hg, hasSet |-> hs, getAnn |-> ga, setAnn |-> sa,
      mode |-> m, G |-> g, S |-> sx] :
        hg \in BOOLEAN, hs \in BOOLEAN, ga \in PropAnnsGet, sa \in PropAnnsSet,
        m \in {"call", "property"}, g \in PropAnnsGet, sx \in PropAnnsSet}

NoFunction == [params |-> <<>>, ret |-> AnnEmpty, sigsrc |-> ""]
NoWrapped == [kind |-> "", ret |-> NoopTC, conversions |-> <<>>]
NoCall == [args |-> <<>>, status |-> "", value |-> PyNone]
NoProperty == [hasGet |-> FALSE, hasSet |-> FALSE, getAnn |-> AnnNone,
               setAnn |-> AnnNone, mode |-> "", G |-> AnnNone, S |-> AnnNone]
NoConverted == [kind |-> "", getter |-> "orig", setter |-> "orig",
                getc |-> NoopTC, setc |-> NoopTC]
NoAccess == [op |-> "", arg |-> PyNone, status |-> "", value |-> PyNone]

\* The union annotations looked up one after another on one factory:
\* Union[X, Y] and Union[Y, X] are equal and hash alike.
LookupAnns == {AnnUnion("bool", "int"), AnnUnion("int", "bool"),
               AnnUnion("bool", "str"), AnnUnion("int", "str"),
               AnnUnion("bool", "List"), AnnUnion("List", "bool")}
NoLookup == [ann |-> AnnEmpty, tc |-> NoopTC, obj |-> 0]

\* ------------------------------------------------------------------------
\* decorators/forwarder.py: targets, forwarders and their construction
\* ------------------------------------------------------------------------
\* Values of the forwarder model: small integers, None, a reference to a
\* target instance (its position in the heap), and the mark of a missing
\* dictionary entry.
IntV(n) == [k |-> "int", n |-> n]
NoneV == [k |-> "none", n |-> 0]
RefV(i) == [k |-> "ref", n |-> i]
Unset == [k |-> "unset", n |-> 0]

\* The forwarder classes and the type each is parameterised by: B forwards
\* to the tests' class A (a, b), C to a class with an empty body, and BL to
\* the builtin list.
FwdClasses == {"B", "C", "BL"}

\* AForwarder._wrapped_type: get_args(cls.__orig_bases__[0])[0]
_wrapped_type(cls) ==
    IF cls = "B" THEN "A" ELSE IF cls = "C" THEN "A0" ELSE "list"

\* A target instance.  A keeps a, _b and _d['full']; a list keeps its items.
Target(cls, a, b, full, items) ==
    [cls |-> cls, a |-> a, b |-> b, full |-> full, items |-> items]

\* Arguments of a call: positional values and keyword (name, value) pairs.
Args(pos, kw) == [pos |-> pos, kw |-> kw]
HasKw(kw, name) == \E e \in kw : e[1] = name
KwGet(kw, name, default) ==
    IF HasKw(kw, name) THEN (CHOOSE e \in kw : e[1] = name)[2] ELSE default
KwPop(kw, name) == {e \in kw : e[1] # name}

\* wrapped_type(*args, **kwargs): A.__init__(self, a, b), the empty class
\* (object's constructor, which takes no argument) and list(); a call that
\* does not fit the parameters raises TypeError.
TargetNew(cls, args) ==
    IF cls = "A"
    THEN LET names == {e[1] : e \in args.kw}
             rest == IF Len(args.pos) = 0 THEN {"a", "b"}
                     ELSE IF Len(args.pos) = 1 THEN {"b"} ELSE {}
         IN  IF Len(args.pos) > 2 \/ names # rest
             THEN [status |-> "TypeError", obj |-> Target(cls, NoneV, NoneV, Unset, <<>>)]
             ELSE [status |-> "ok",
                   obj |-> Target(cls,
                                  IF Len(args.pos) >= 1 THEN args.pos[1]
                                  ELSE KwGet(args.kw, "a", NoneV),
                                  IF Len(args.pos) >= 2 THEN args.pos[2]
                                  ELSE KwGet(args.kw, "b", NoneV),
                                  Unset, <<>>)]
    ELSE IF Len(args.pos) = 0 /\ args.kw = {}
    THEN [status |-> "ok", obj |-> Target(cls, NoneV, NoneV, Unset, <<>>)]
    ELSE [status |-> "TypeError", obj |-> Target(cls, NoneV, NoneV, Unset, <<>>)]

\* bool(value): None, False and 0 are false, an empty list is false, every
\* other object (an instance of A, of the empty class) is true.
Truthy(h, v) ==
    IF v.k = "ref" THEN (h[v.n].cls = "list" => h[v.n].items # <<>>)
    ELSE IF v.k = "int" THEN v.n # 0
    ELSE FALSE

\* isinstance(instance, wrapped_type)
IsTargetInstance(h, v, wrapped_type) == v.k = "ref" /\ h[v.n].cls = wrapped_type

\* AForwarder.__init__ constructing a target only when the heap holds none
\* of the wrapped type, and holding the latest one otherwise.
AForwarderInit_SharedTarget(h, cls, args) ==
    LET wrapped_type == _wrapped_type(cls)
        new == TargetNew(wrapped_type, Args(args.pos, KwPop(args.kw, "_do_wrap")))
        same == {i \in 1..Len(h) : h[i].cls = wrapped_type}
    IN  IF Truthy(h, KwGet(args.kw, "_do_wrap", IntV(0)))
        THEN [status |-> "ok", raised |-> "", heap |-> h,
              target |-> KwGet(args.kw, "_do_wrap", IntV(0)).n]
        ELSE IF new.status # "ok"
        THEN [status |-> new.status, raised |-> "constructor", heap |-> h, target |-> 0]
        ELSE IF same # {}
        THEN [status |-> "ok", raised |-> "", heap |-> h,
              target |-> CHOOSE i \in same : \A k \in same : k <= i]
        ELSE [status |-> "ok", raised |-> "", heap |-> Append(h, new.obj),
              target |-> Len(h) + 1]

\* AForwarder.__init__(self, *args, **kwargs): `_do_wrap` is popped with the
\* default False and tested by truth; a true value is type-checked and kept,
\* anything else constructs wrapped_type(*args, **kwargs).
AForwarderInit(h, cls, args) ==
    LET wrapped_type == _wrapped_type(cls)
        instance == KwGet(args.kw, "_do_wrap", IntV(0))
        kwargs == KwPop(args.kw, "_do_wrap")
        new == TargetNew(wrapped_type, Args(args.pos, kwargs))
    IN  IF Truthy(h, instance)
        THEN (IF ~IsTargetInstance(h, instance, wrapped_type)
              THEN [status |-> "TypeError", raised |-> "wrap", heap |-> h, target |-> 0]
              ELSE [status |-> "ok", raised |-> "", heap |-> h, target |-> instance.n])
        ELSE IF new.status # "ok"
        THEN [status |-> new.status, raised |-> "constructor", heap |-> h, target |-> 0]
        ELSE [status |-> "ok", raised |-> "", heap |-> Append(h, new.obj),
              target |-> Len(h) + 1]

\* AForwarder.wrap: cls(_do_wrap=to_wrap_instance)
wrap(h, cls, to_wrap_instance) ==
    AForwarderInit(h, cls, Args(<<>>, {<<"_do_wrap", to_wrap_instance>>}))

\* The argument lists forwarders and targets are constructed with.
CtorArgs ==
    {Args(<<>>, {}), Args(<<IntV(1), IntV(2)>>, {}),
     Args(<<IntV(2)>>, {<<"b", IntV(1)>>})}

\* The targets that exist before any forwarder: A(...), an instance of the
\* empty class, and the lists [] and [1].
NewTargets ==
    {Target("A", IntV(1), IntV(2), Unset, <<>>),
     Target("A0", NoneV, NoneV, Unset, <<>>)}
    \cup {Target("list", NoneV, NoneV, Unset, items) : items \in {<<>>, <<IntV(1)>>}}

\* What wrap is handed: an existing target instance, 1, 0 or None.
WrapValues(h) == {RefV(i) : i \in 1..Len(h)} \cup {IntV(1), IntV(0), NoneV}

NoOp == [op |-> "", cls |-> "", name |-> "", args |-> Args(<<>>, {}),
         status |-> "", raised |-> "", made |-> 0, fwd |-> 0, value |-> NoneV,
         ran |-> <<>>]

\* ------------------------------------------------------------------------
\* decorators/forwarder.py: forwarded methods and properties
\* ------------------------------------------------------------------------
\* A function object as a class holds it: `via` tells how it finds the
\* object it works on ("self": the instance it is called with, "resolve":
\* resolver(instance), "none": the accessor is None) and f names the code.
Func(f) == [via |-> "self", f |-> f]
NoFunc == [via |-> "none", f |-> ""]

\* property(fget, fset, fdel)
Property(fget, fset, fdel) ==
    [kind |-> "property", get |-> fget, set |-> fset, del |-> fdel]
Method(func) == [kind |-> "method", get |-> func, set |-> NoFunc, del |-> NoFunc]

\* The members of the tests' class A.
AMembers ==
    [foo |-> Method(Func("foo")),
     bar |-> Property(Func("bar_get"), Func("bar_set"), NoFunc),
     full |-> Property(Func("full_get"), Func("full_set"), Func("full_del")),
     no_get |-> Property(NoFunc, Func("_no_get_setter"), NoFunc),
     no_set |-> Property(Func("_no_set_getter"), NoFunc, NoFunc)]

\* The object a piece of code was run on: a target or a forwarder.
FwdV(i) == [k |-> "fwd", n |-> i]

\* The bodies of A's functions and of B's stub, run on the object self:
\* what they return or raise and the heap they leave.
Body(h, self, f, args) ==
    LET t == self.n
        ran == <<[f |-> f, self |-> self, args |-> args]>>
        ok(v, h2) == [status |-> "ok", value |-> v, heap |-> h2, ran |-> ran]
        raise(e) == [status |-> e, value |-> NoneV, heap |-> h, ran |-> ran]
    IN  IF f \in {"foo", "foobar"} /\ args # <<>> THEN raise("TypeError")
        ELSE IF f = "foobar" THEN ok(NoneV, h)
        ELSE IF self.k # "ref" THEN raise("AttributeError")
        ELSE IF f = "foo" THEN ok(h[t].a, h)
        ELSE IF f = "bar_get" THEN ok(h[t].b, h)
        ELSE IF f = "bar_set" THEN ok(NoneV, [h EXCEPT ![t].b = args[1]])
        ELSE IF f = "full_get"
        THEN (IF h[t].full = Unset THEN raise("AttributeError") ELSE ok(h[t].full, h))
        ELSE IF f = "full_set" THEN ok(NoneV, [h EXCEPT ![t].full = args[1]])
        ELSE IF f = "full_del"
        THEN (IF h[t].full = Unset THEN raise("AttributeError")
              ELSE ok(NoneV, [h EXCEPT ![t].full = Unset]))
        ELSE IF f = "_no_set_getter" THEN ok(IntV(1), h)
        ELSE ok(NoneV, h)

\* A resolver that always answers with the first target created.
resolve_First(f) == 1

\* AForwarder.resolve
resolve(f) == f.target

\* wrap_property wrapping all three accessors, the missing ones too.
wrap_property_AllAccessors(prop) ==
    Property([via |-> "resolve", f |-> prop.get.f],
             [via |-> "resolve", f |-> prop.set.f],
             [via |-> "resolve", f |-> prop.del.f])

\* ForwardWrapper.wrap_property: each accessor the property has is replaced
\* by one that resolves the instance first; a missing accessor stays None.
wrap_property(prop) ==
    Property(IF prop.get # NoFunc THEN [via |-> "resolve", f |-> prop.get.f] ELSE NoFunc,
             IF prop.set # NoFunc THEN [via |-> "resolve", f |-> prop.set.f] ELSE NoFunc,
             IF prop.del # NoFunc THEN [via |-> "resolve", f |-> prop.del.f] ELSE NoFunc)

\* ForwardWrapper.wrap_method
wrap_method(method) == Method([via |-> "resolve", f |-> method.get.f])

\* ForwardWrapper.__call__
forward(method_or_prop) ==
    IF method_or_prop.kind = "property" THEN wrap_property(method_or_prop)
    ELSE wrap_method(method_or_prop)

\* A decorator that leaves the decorated stub in place.
to_KeepsStub(method, _func) == _func

\* ForwardWrapper.to(method)(_func): the stub is dropped
to(method, _func) == forward(method)

\* The members of the tests' class B(Forwarder[A]).
BMembers ==
    [foo |-> forward(AMembers.foo),
     bar |-> forward(AMembers.bar),
     full |-> forward(AMembers.full),
     no_get |-> forward(AMembers.no_get),
     no_set |-> forward(AMembers.no_set),
     foobar |-> to(AMembers.foo, Method(Func("foobar")))]

\* Calling a function object with an instance: a forwarding one resolves
\* the forwarder to its target first.
Invoke(h, fw, func, inst, args) ==
    IF func.via = "resolve"
    THEN Body(h, RefV(resolve(fw[inst.n])), func.f, args)
    ELSE Body(h, inst, func.f, args)

\* getattr / setattr / delattr / call of a member on an instance: a property
\* without the accessor raises AttributeError and runs nothing.
MemberOp(h, fw, member, inst, op, args) ==
    LET func == IF op = "call" THEN member.get
                ELSE IF op = "get" THEN member.get
                ELSE IF op = "set" THEN member.set
                ELSE member.del
    IN  IF func = NoFunc
        THEN [status |-> "AttributeError", value |-> NoneV, heap |-> h, ran |-> <<>>]
        ELSE Invoke(h, fw, func, inst, args)

\* The operations made on a B: the member, how it is used, the arguments.
MethodNames == {"foo", "foobar"}
PropertyNames == {"bar", "full", "no_get", "no_set"}
MemberOps ==
    {[name |-> n, op |-> "call", args |-> a] :
        n \in MethodNames, a \in {<<>>, <<IntV(1)>>}}
    \cup {[name |-> n, op |-> o, args |-> <<>>] :
            n \in PropertyNames, o \in {"get", "del"}}
    \cup {[name |-> n, op |-> "set", args |-> <<v>>] :
            n \in PropertyNames, v \in {IntV(3)}}

\* ------------------------------------------------------------------------
\* decorators/forwarder.py: _ForwarderMeta and the class statement
\* ------------------------------------------------------------------------
\* A namespace is a set of (name, object) pairs.  The objects: the module's
\* `forward` helper, another ForwardWrapper, a function the class defines
\* under the name forward, and a forwarded member.
Helper == "forward"
OtherHelper == "ForwardWrapper(resolver)"
OwnForward == "def forward(self)"
Member == "forward(A.foo)"

NsHas(ns, name) == \E e \in ns : e[1] = name
NsGet(ns, name) == IF NsHas(ns, name) THEN (CHOOSE e \in ns : e[1] = name)[2] ELSE "None"
NsSet(ns, name, obj) == {e \in ns : e[1] # name} \cup {<<name, obj>>}
NsDel(ns, name) == {e \in ns : e[1] # name}

\* _ForwarderMeta.__prepare__
MetaPrepare == {<<"forward", Helper>>}

\* What the body of a Forwarder subclass does with the namespace: nothing,
\* forward(A.foo), its own def forward, `forward = forward`, a ForwardWrapper
\* of its own under the name forward, `del forward`.
Bodies == {"pass", "use", "def", "same", "other", "del"}
RunBody(ns, body) ==
    IF body = "use" THEN NsSet(ns, "foo", Member)
    ELSE IF body = "def" THEN NsSet(ns, "forward", OwnForward)
    ELSE IF body = "same" THEN NsSet(ns, "forward", NsGet(ns, "forward"))
    ELSE IF body = "other" THEN NsSet(ns, "forward", OtherHelper)
    ELSE IF body = "del" THEN NsDel(ns, "forward")
    ELSE ns

\* _ForwarderMeta.__new__ deleting whatever is bound to forward.
MetaNew_AlwaysDelete(classdict) == NsDel(classdict, "forward")

\* _ForwarderMeta.__new__: forward is deleted when it still is the helper.
MetaNew(classdict) ==
    IF NsGet(classdict, "forward") = Helper THEN NsDel(classdict, "forward")
    ELSE classdict

\* ------------------------------------------------------------------------
\* State
\* ------------------------------------------------------------------------
VARIABLES
    phase,      \* "init", "constructed", "failed", "callable", "called", "property"
    ctor,       \* the two mappings ConversionWrapper(...) was called with
    wrapper,    \* the ConversionWrapper: its two registries, or the error
    cacheRet,   \* create_union_converter's cache of the return factory
    cacheIn,    \* create_union_converter's cache of the input factory
    fn,         \* the function handed to the wrapper
    wrapped,    \* what convert_callable returned for it
    call,       \* the last call of the wrapped function and its outcome
    prop,       \* the property handed to the wrapper, and how
    cprop,      \* what convert_property returned for it
    field,      \* the attribute the property's accessors store in
    written,    \* the value last assigned to the converted property, if any
    access      \* the last read or write of the converted property

VARIABLES
    lookups,    \* how many times get_type_converter was called directly
    made,       \* the cache keys a dispatcher was built for, in building order
    lookup,     \* the last direct lookup: annotation, result, which object
    first       \* per annotation looked up, what its first lookup returned

lookupVars == <<lookups, made, lookup, first>>

VARIABLES
    heap,       \* the target instances, in the order they were created
    fwds,       \* the forwarder instances, in the order they were created
    nops,       \* how many forwarder operations have been made
    fop         \* the last forwarder operation and its outcome

fwdVars == <<heap, fwds, nops, fop>>

VARIABLES
    cphase,     \* the class statement: "none", "prepared", "evaluated", "created"
    classdict,  \* the namespace the class body is evaluated in
    cbody,      \* what the class body did
    klass       \* the namespace of the class created

metaVars == <<cphase, classdict, cbody, klass>>

vars == <<phase, ctor, wrapper, cacheRet, cacheIn, fn, wrapped, call,
          prop, cprop, field, written, access, lookupVars, fwdVars, metaVars>>

Init ==
    /\ phase = "init"
    /\ ctor = [ret |-> Omitted, inp |-> Omitted]
    /\ wrapper = [status |-> "", reason |-> "", ret |-> <<>>, inp |-> <<>>]
    /\ cacheRet = {}
    /\ cacheIn = {}
    /\ fn = NoFunction
    /\ wrapped = NoWrapped
    /\ call = NoCall
    /\ prop = NoProperty
    /\ cprop = NoConverted
    /\ field = Val("bool")
    /\ written = NoInst
    /\ access = NoAccess
    /\ lookups = 0
    /\ made = <<>>
    /\ lookup = NoLookup
    /\ first = {}
    /\ heap = <<>>
    /\ fwds = <<>>
    /\ nops = 0
    /\ fop = NoOp
    /\ cphase = "none"
    /\ classdict = {}
    /\ cbody = ""
    /\ klass = {}

\* ConversionWrapper(return_converters, input_converters)
Construct ==
    /\ phase = "init"
    /\ \E rm \in Mappings(RetKeys, MaxRetLen), im \in Mappings(InKeys, MaxInLen) :
        /\ ctor' = [ret |-> rm, inp |-> im]
        /\ wrapper' = WrapperInit(rm, im)
        /\ phase' = IF WrapperInit(rm, im).status = "ok" THEN "constructed"
                    ELSE "failed"
    /\ UNCHANGED <<cacheRet, cacheIn, fn, wrapped, call, prop, cprop, field,
                   written, access>>
    /\ UNCHANGED <<lookupVars, fwdVars, metaVars>>

\* convert(method), convert.signature(...)(method)
ConvertCallable ==
    /\ phase = "constructed"
    /\ \E f \in Functions :
        /\ fn' = f
        /\ wrapped' = convert_callable(wrapper, cacheIn, cacheRet, SignatureOf(f))
        /\ cacheIn' = CacheAfterParams(wrapper, cacheIn, f.params, 1)
        /\ cacheRet' = CacheRetAfter(wrapper, cacheIn, cacheRet, SignatureOf(f))
    /\ phase' = "callable"
    /\ UNCHANGED <<ctor, wrapper, call, prop, cprop, field, written, access>>
    /\ UNCHANGED <<lookupVars, fwdVars, metaVars>>

\* wrapped(*args) on a shim convert_callable built
Call ==
    /\ phase \in {"callable", "called"}
    /\ wrapped.kind \notin {"same", "TypeError"}
    /\ \E args \in ArgLists(fn.params) :
        call' = [args |-> args,
                 status |-> WrappedCall(fn.params, wrapped, args).status,
                 value |-> WrappedCall(fn.params, wrapped, args).value]
    /\ phase' = "called"
    /\ UNCHANGED <<ctor, wrapper, cacheRet, cacheIn, fn, wrapped, prop, cprop,
                   field, written, access>>
    /\ UNCHANGED <<lookupVars, fwdVars, metaVars>>

\* convert(prop), convert.property(G, S)(prop)
ConvertProperty ==
    /\ phase = "constructed"
    /\ \E p \in Properties :
        /\ p.mode = "call" => (p.G = AnnNone /\ p.S = AnnNone)
        /\ prop' = p
        /\ cprop' = IF p.mode = "call"
                    THEN convert_property(wrapper, cacheIn, cacheRet, p, AnnNone, AnnNone)
                    ELSE PropertyDecorator(wrapper, cacheIn, cacheRet, p, p.G, p.S)
        /\ cacheRet' = PropCacheRetAfter(wrapper, cacheRet, p, p.G)
        /\ cacheIn' = PropCacheInAfter(wrapper, cacheIn, cacheRet, p, p.G,
                                       IF p.S.kind = "None" THEN p.G ELSE p.S)
    /\ phase' = "property"
    /\ UNCHANGED <<ctor, wrapper, fn, wrapped, call, field, written, access>>
    /\ UNCHANGED <<lookupVars, fwdVars, metaVars>>

\* o.p = v
PropertyWrite ==
    /\ phase = "property"
    /\ cprop.kind # "TypeError"
    /\ \E v \in Values :
        LET r == PropertySet(prop, cprop, Obj, v)
        IN  /\ access' = [op |-> "write", arg |-> v, status |-> r.status,
                          value |-> r.value]
            /\ field' = IF r.status = "ok" THEN r.value ELSE field
            /\ written' = IF r.status = "ok" THEN v ELSE written
    /\ UNCHANGED <<phase, ctor, wrapper, cacheRet, cacheIn, fn, wrapped, call,
                   prop, cprop>>
    /\ UNCHANGED <<lookupVars, fwdVars, metaVars>>

\* o.p
PropertyRead ==
    /\ phase = "property"
    /\ cprop.kind # "TypeError"
    /\ LET r == PropertyGet(prop, cprop, Obj, field)
       IN  access' = [op |-> "read", arg |-> field, status |-> r.status,
                      value |-> r.value]
    /\ UNCHANGED <<phase, ctor, wrapper, cacheRet, cacheIn, fn, wrapped, call,
                   prop, cprop, field, written>>
    /\ UNCHANGED <<lookupVars, fwdVars, metaVars>>

Next ==
    \/ Construct
    \/ ConvertCallable
    \/ Call
    \/ ConvertProperty
    \/ PropertyWrite
    \/ PropertyRead

Spec == Init /\ [][Next]_vars

\* ------------------------------------------------------------------------
\* Repeated lookups on the input factory of one wrapper
\* ------------------------------------------------------------------------
\* The object a lookup hands back: dispatchers are numbered in the order
\* create_union_converter built them, 0 when the lookup raised.
ObjectOf(mk, tc, ann) ==
    IF tc.kind = "TypeError" THEN 0
    ELSE CHOOSE n \in 1..Len(mk) : mk[n] = CacheKey(ann)

\* What get_type_converter(ann) returns with the given cache.
LookupResult(cache, mk, ann) ==
    LET hit == \E e \in cache : e.key = CacheKey(ann)
        tc == get_type_converter(wrapper.inp, cache, ann)
        mk2 == IF ~hit /\ tc.kind # "TypeError" THEN Append(mk, CacheKey(ann))
               ELSE mk
    IN  [ann |-> ann, tc |-> tc, obj |-> ObjectOf(mk2, tc, ann)]

\* convert._input_converters.get_type_converter(Union[...])
Lookup ==
    /\ phase = "constructed"
    /\ lookups < MaxLookups
    /\ \E ann \in LookupAnns :
        LET r == LookupResult(cacheIn, made, ann)
        IN  /\ lookup' = r
            /\ cacheIn' = CacheAfter(wrapper.inp, cacheIn, ann)
            /\ made' = IF cacheIn' # cacheIn THEN Append(made, CacheKey(ann))
                       ELSE made
            /\ first' = IF r.tc.kind # "TypeError"
                           /\ ~\E e \in first : e.ann = ann
                        THEN first \cup {r} ELSE first
    /\ lookups' = lookups + 1
    /\ UNCHANGED <<phase, ctor, wrapper, cacheRet, fn, wrapped, call, prop,
                   cprop, field, written, access>>
    /\ UNCHANGED <<fwdVars, metaVars>>

NextLookup ==
    \/ Construct
    \/ Lookup

SpecLookup == Init /\ [][NextLookup]_vars

\* ------------------------------------------------------------------------
\* Forwarders
\* ------------------------------------------------------------------------
convVars == <<phase, ctor, wrapper, cacheRet, cacheIn, fn, wrapped, call,
              prop, cprop, field, written, access>>

\* x = A(1, 2), x = [] ...: a target created by the program itself
NewTarget ==
    /\ cphase = "none"
    /\ Len(heap) < MaxHeap
    /\ \E t \in NewTargets : heap' = Append(heap, t)
    /\ UNCHANGED <<fwds, nops, fop>>
    /\ UNCHANGED <<convVars, lookupVars, metaVars>>

\* The forwarder an operation leaves behind, when it succeeded.
FwdsAfter(cls, by, r) ==
    IF r.status = "ok"
    THEN Append(fwds, [cls |-> cls, target |-> r.target, by |-> by])
    ELSE fwds

\* B(1, 2), C(), BL() ...
ConstructForwarder ==
    /\ cphase = "none"
    /\ Len(heap) < MaxHeap /\ Len(fwds) < MaxFwds /\ nops < MaxOps
    /\ \E cls \in FwdClasses, args \in CtorArgs :
        LET r == AForwarderInit(heap, cls, args)
        IN  /\ heap' = r.heap
            /\ fwds' = FwdsAfter(cls, "construct", r)
            /\ fop' = [NoOp EXCEPT
                       !.op = "construct", !.cls = cls, !.args = args,
                       !.status = r.status, !.raised = r.raised,
                       !.made = Len(r.heap) - Len(heap),
                       !.fwd = IF r.status = "ok" THEN Len(fwds) + 1 ELSE 0]
    /\ nops' = nops + 1
    /\ UNCHANGED <<convVars, lookupVars, metaVars>>

\* B.wrap(x)
Wrap ==
    /\ cphase = "none"
    /\ Len(heap) < MaxHeap /\ Len(fwds) < MaxFwds /\ nops < MaxOps
    /\ \E cls \in FwdClasses, v \in WrapValues(heap) :
        LET r == wrap(heap, cls, v)
        IN  /\ heap' = r.heap
            /\ fwds' = FwdsAfter(cls, "wrap", r)
            /\ fop' = [NoOp EXCEPT
                       !.op = "wrap", !.cls = cls, !.args = Args(<<v>>, {}),
                       !.status = r.status, !.raised = r.raised,
                       !.made = Len(r.heap) - Len(heap),
                       !.fwd = IF r.status = "ok" THEN Len(fwds) + 1 ELSE 0]
    /\ nops' = nops + 1
    /\ UNCHANGED <<convVars, lookupVars, metaVars>>

\* o.foo(), o.bar, o.bar = v, del o.bar ... on a B
Forwarded ==
    /\ cphase = "none"
    /\ nops < MaxOps
    /\ \E i \in 1..Len(fwds), m \in MemberOps :
        /\ fwds[i].cls = "B"
        /\ LET r == MemberOp(heap, fwds, BMembers[m.name], FwdV(i), m.op, m.args)
           IN  /\ heap' = r.heap
               /\ fop' = [NoOp EXCEPT
                          !.op = m.op, !.cls = "B", !.name = m.name,
                          !.args = Args(m.args, {}), !.status = r.status,
                          !.fwd = i, !.value = r.value, !.ran = r.ran]
    /\ nops' = nops + 1
    /\ UNCHANGED fwds
    /\ UNCHANGED <<convVars, lookupVars, metaVars>>

\* A class statement `class X(Forwarder[A]): ...` touches nothing the
\* instances use, so the model runs it from the initial state only, and the
\* operations on instances when no class statement has begun.
ClassStatement == heap = <<>> /\ fwds = <<>> /\ nops = 0

\* class X(Forwarder[A]): the metaclass prepares the namespace
Prepare ==
    /\ ClassStatement /\ cphase = "none"
    /\ classdict' = MetaPrepare
    /\ cphase' = "prepared"
    /\ UNCHANGED <<cbody, klass>>
    /\ UNCHANGED <<convVars, lookupVars, fwdVars>>

\* the class body is evaluated in that namespace
EvaluateBody ==
    /\ cphase = "prepared"
    /\ \E b \in Bodies :
        /\ cbody' = b
        /\ classdict' = RunBody(classdict, b)
    /\ cphase' = "evaluated"
    /\ UNCHANGED klass
    /\ UNCHANGED <<convVars, lookupVars, fwdVars>>

\* _ForwarderMeta.__new__(name, bases, classdict)
CreateClass ==
    /\ cphase = "evaluated"
    /\ classdict' = MetaNew(classdict)
    /\ klass' = MetaNew(classdict)
    /\ cphase' = "created"
    /\ UNCHANGED cbody
    /\ UNCHANGED <<convVars, lookupVars, fwdVars>>

NextForwarder ==
    \/ NewTarget
    \/ ConstructForwarder
    \/ Wrap
    \/ Forwarded
    \/ Prepare
    \/ EvaluateBody
    \/ CreateClass

SpecForwarder == Init /\ [][NextForwarder]_vars

\* ------------------------------------------------------------------------
\* Vocabulary of the properties, read off the state and the constructor's
\* arguments rather than off the lookups above
\* ------------------------------------------------------------------------
\* The registry holds a converter registered for exactly type t.
Registered(convs, t) == \E i \in 1..Len(convs) : convs[i].src = t

\* No converter is registered for the annotation: it is empty, or a type
\* (None read as NoneType) that is no key, or a union no member of which is
\* a key.
Unregistered(convs, ann) ==
    \/ ann.kind = "empty"
    \/ ann.kind = "None" /\ ~Registered(convs, "NoneType")
    \/ ann.kind = "type" /\ ~Registered(convs, ann.args[1])
    \/ ann.kind = "union" /\ \A j \in 1..Len(ann.args) : ~Registered(convs, ann.args[j])

\* A mapping handed to the constructor has a union among its keys.
HasUnionKey(m) == m.given /\ \E i \in 1..Len(m.entries) : m.entries[i].key.kind = "union"

\* A function has been handed to the wrapper.
Wrapping == phase \in {"callable", "called"}

\* The position of parameter a, the value passed for it in the last call and
\* whether that call passed every parameter of the signature.
IndexA == CHOOSE i \in 1..Len(fn.params) : fn.params[i].name = "a"
AnnA == fn.params[IndexA].ann
ArgA == call.args[IndexA]
FullCall == phase = "called" /\ Len(call.args) = Len(fn.params)

\* C1: for every registry and every function whose parameters and return
\* value carry no annotation, or annotations for which no converter is
\* registered (a union none of whose members has one included), applying the
\* wrapper returns the identical function object and no shim.
C1_UnregisteredReturnsSameFunction ==
    (/\ Wrapping
     /\ \A i \in 1..Len(fn.params) : Unregistered(wrapper.inp, fn.params[i].ann)
     /\ Unregistered(wrapper.ret, fn.ret))
    => wrapped.kind = "same"

\* C2: when parameter a is annotated with a type that has a registered input
\* converter cin and the return annotation with a type that has a registered
\* return converter cout, whatever the source of the signature, a call that
\* passes x returns cout(f(cin(x))): cin is applied to x, then f is called
\* once with the result, then cout is applied to what f returned.
C2_CallIsCoutOfFOfCin ==
    (/\ FullCall
     /\ AnnA.kind = "type" /\ Registered(wrapper.inp, AnnA.args[1])
     /\ fn.ret.kind \in {"type", "None"}
     /\ Registered(wrapper.ret, FixupNoneKey(fn.ret)))
    => /\ call.status = "ok"
       /\ Len(call.value.hist) = 3
       /\ call.value.hist[1].op = <<"in", AnnA.args[1]>>
       /\ call.value.hist[1].from = ArgA.ty
       /\ call.value.hist[2].op = <<"call", "method">>
       /\ call.value.hist[2].from = ConvOut("in", AnnA.args[1])
       /\ call.value.hist[3].op = <<"ret", FixupNoneKey(fn.ret)>>
       /\ call.value.ty = ConvOut("ret", FixupNoneKey(fn.ret))

C2_Witness ==
    /\ FullCall
    /\ fn.sigsrc = "string"
    /\ AnnA = AnnType("int") /\ Registered(wrapper.inp, "int")
    /\ fn.ret = AnnType("bool") /\ Registered(wrapper.ret, "bool")
    /\ ArgA = Val("int")
    /\ call.status = "ok"
    /\ call.value.ty = "str"

\* C3: construction fails with a TypeError and yields no wrapper whenever a
\* key of the return mapping or of the input mapping is a union; with no
\* union key it never fails for that reason.
C3_UnionKeyRejected ==
    phase # "init" =>
        /\ (HasUnionKey(ctor.ret) \/ HasUnionKey(ctor.inp))
              => /\ wrapper.status = "TypeError"
                 /\ phase = "failed"
                 /\ fn = NoFunction /\ prop = NoProperty
        /\ ~(HasUnionKey(ctor.ret) \/ HasUnionKey(ctor.inp))
              => wrapper.reason # "union key"

C3_Witness ==
    /\ phase = "failed"
    /\ ctor.ret.given /\ ~HasUnionKey(ctor.ret)
    /\ HasUnionKey(ctor.inp)
    /\ Len(ctor.inp.entries) = 2
    /\ ctor.inp.entries[2].key.kind = "union"
    /\ wrapper.reason = "union key"

\* C4: both mappings are optional: with the return mapping, the input
\* mapping or both omitted (and no union key in the one given) construction
\* succeeds, and an omitted mapping behaves as a registry with no converter.
C4_OmittedMappingsConstruct ==
    (/\ phase # "init"
     /\ ~ctor.ret.given \/ ~ctor.inp.given
     /\ ~HasUnionKey(ctor.ret) /\ ~HasUnionKey(ctor.inp))
    => /\ wrapper.status = "ok"
       /\ ~ctor.ret.given => wrapper.ret = <<>>
       /\ ~ctor.inp.given => wrapper.inp = <<>>

\* The registered input types a union-annotated parameter a selects by the
\* declaration (members that are keys) and by the code's test (keys that
\* have a subclass among the members), each narrowed to the types the value
\* passed for a is an instance of.
DeclaredMatches ==
    {j \in 1..Len(AnnA.args) :
        Registered(wrapper.inp, AnnA.args[j]) /\ IsInstance(ArgA, AnnA.args[j])}

RegistryMatches ==
    {i \in 1..Len(wrapper.inp) :
        /\ \E j \in 1..Len(AnnA.args) : IsSubclass(AnnA.args[j], wrapper.inp[i].src)
        /\ IsInstance(ArgA, wrapper.inp[i].src)}

Least(S) == CHOOSE n \in S : \A m \in S : n <= m

\* What happened first to the value passed for a: an input converter, or
\* the method itself when the value reached it unchanged.
FirstStep == call.value.hist[1]
PassedUnchanged == FirstStep.op = <<"call", "method">> /\ FirstStep.from = ArgA.ty

UnionCall == FullCall /\ AnnA.kind = "union"

\* C5 as stated: for a parameter annotated with a union, a value that is an
\* instance of a union member with a registered converter goes through the
\* converter of such a member, and a value that is an instance of no such
\* member reaches the wrapped function unchanged, with no error.
C5_DispatchByUnionMember ==
    UnionCall =>
        /\ call.status = "ok"
        /\ IF DeclaredMatches # {}
           THEN /\ FirstStep.op[1] = "in"
                /\ \E j \in DeclaredMatches : FirstStep.op[2] = AnnA.args[j]
           ELSE PassedUnchanged

\* C5 amended: the dispatcher of a union-annotated parameter passes a value
\* through the converter of a registered type that some union member is a
\* subclass of and the value an instance of, and returns a value that is an
\* instance of no such registered type unchanged, without an error.
C5_DispatchByRegisteredType ==
    UnionCall =>
        /\ call.status = "ok"
        /\ IF RegistryMatches # {}
           THEN /\ FirstStep.op[1] = "in"
                /\ FirstStep.from = ArgA.ty
                /\ \E i \in RegistryMatches : FirstStep.op[2] = wrapper.inp[i].src
           ELSE PassedUnchanged

C5_Witness ==
    /\ UnionCall
    /\ AnnA = AnnUnion("bool", "str")
    /\ ArgA = Val("int")
    /\ DeclaredMatches = {}
    /\ FirstStep.op = <<"in", "int">>

\* C6 as stated: when the value is an instance of more than one union member
\* with a registered converter, the converter of the member declared first
\* in the union is applied, whatever the order of the registry's keys.
C6_FirstDeclaredMemberWins ==
    (UnionCall /\ Cardinality(DeclaredMatches) >= 2)
    => FirstStep.op = <<"in", AnnA.args[Least(DeclaredMatches)]>>

\* C6 amended: when the value is an instance of more than one registered
\* type selected by the union, the converter of the type that comes first
\* among the registry's keys is applied, whatever the order in which the
\* union declares its members.
C6_FirstRegistryKeyWins ==
    (UnionCall /\ Cardinality(RegistryMatches) >= 2)
    => FirstStep.op = <<"in", wrapper.inp[Least(RegistryMatches)].src>>

C6_Witness ==
    /\ UnionCall
    /\ AnnA = AnnUnion("int", "bool")
    /\ Len(wrapper.inp) = 2
    /\ wrapper.inp[1].src = "bool" /\ wrapper.inp[2].src = "int"
    /\ ArgA = Val("bool")
    /\ FirstStep.op = <<"in", "bool">>

\* The converter a history entry names is a two-argument one.
TwoArgument(e) ==
    LET convs == IF e.op[1] = "in" THEN wrapper.inp ELSE wrapper.ret
    IN  \E i \in 1..Len(convs) : convs[i].src = e.op[2] /\ convs[i].unbound

\* C7: a two-argument converter applied to an argument or to the return
\* value of a wrapped method receives as its first argument the first
\* positional argument of that call (the instance), however the method's
\* first parameter is named and wherever the signature came from.
C7_InstanceIsFirstPositional ==
    (phase = "called" /\ call.status = "ok" /\ fn.params[1].name # "a") =>
        \A k \in 1..Len(call.value.hist) :
            (call.value.hist[k].op[1] \in {"in", "ret"}
             /\ TwoArgument(call.value.hist[k]))
            => call.value.hist[k].inst = call.args[1]

\* The union of parameter a selects converters of both kinds.
MixedSelection ==
    /\ \E i \in 1..Len(wrapper.inp) :
          /\ wrapper.inp[i].unbound
          /\ \E j \in 1..Len(AnnA.args) : IsSubclass(AnnA.args[j], wrapper.inp[i].src)
    /\ \E i \in 1..Len(wrapper.inp) :
          /\ ~wrapper.inp[i].unbound
          /\ \E j \in 1..Len(AnnA.args) : IsSubclass(AnnA.args[j], wrapper.inp[i].src)

\* C8: for a union-annotated parameter whose matching converters are a mix
\* of two-argument and one-argument converters, the converter of the branch
\* that matched is called with (instance, value) when it is two-argument,
\* with the instance the dispatcher was handed (the first positional
\* argument when the first parameter is self), and with (value) alone when
\* it is one-argument; an unmatched value passes through unchanged.
C8_MixedUnionRouting ==
    (UnionCall /\ MixedSelection) =>
        /\ call.status = "ok"
        /\ IF RegistryMatches = {} THEN PassedUnchanged
           ELSE /\ FirstStep.op[1] = "in"
                /\ \E i \in RegistryMatches : FirstStep.op[2] = wrapper.inp[i].src
                /\ TwoArgument(FirstStep) =>
                      /\ FirstStep.inst # NoInst
                      /\ fn.params[1].name = "self" => FirstStep.inst = call.args[1]
                /\ ~TwoArgument(FirstStep) => FirstStep.inst = NoInst

C8_Witness ==
    /\ UnionCall /\ MixedSelection
    /\ fn.params[1].name = "self"
    /\ FirstStep.op[1] = "in"
    /\ TwoArgument(FirstStep)
    /\ FirstStep.inst = Obj

C8_WitnessOneArgument ==
    /\ UnionCall /\ MixedSelection
    /\ FirstStep.op[1] = "in"
    /\ ~TwoArgument(FirstStep)
    /\ FirstStep.inst = NoInst

\* C9: the wrapping machinery introduces no error of its own: a call with
\* arguments the original function accepts, a call that leaves a defaulted
\* parameter out included, does not raise (no converter and no method of
\* the model raises).
C9_NoErrorOfItsOwn ==
    phase = "called" => call.status = "ok"

\* The converter registered for annotation ann, applied to v, gives r: r is
\* v with that one conversion appended, or v itself when the registry holds
\* no converter for ann.
ConvertedBy(convs, side, ann, v, r) ==
    IF (ann.kind = "None" /\ Registered(convs, "NoneType"))
       \/ (ann.kind = "type" /\ Registered(convs, ann.args[1]))
    THEN /\ Len(r.hist) = Len(v.hist) + 1
         /\ SubSeq(r.hist, 1, Len(v.hist)) = v.hist
         /\ r.hist[Len(r.hist)].op = <<side, FixupNoneKey(ann)>>
         /\ r.hist[Len(r.hist)].from = v.ty
    ELSE r = v

\* The annotation convert.property(G, S) uses for the setter.
SetterAnn == IF prop.S.kind = "None" THEN prop.G ELSE prop.S

ExplicitProperty ==
    /\ phase = "property" /\ prop.mode = "property"
    /\ prop.hasGet /\ prop.hasSet /\ cprop.kind # "TypeError"

\* C10 as stated: for a property converted with convert.property(G, S),
\* every read returns the return converter registered for G applied to what
\* the getter returned, and every write hands the setter the input converter
\* registered for S (G when S is omitted) applied to the written value, so a
\* read after a write of v returns ret_G(in_S(v)).
C10_ExplicitPropertyAnnotations ==
    ExplicitProperty =>
       /\ access.op = "read" =>
            /\ access.status = "ok"
            /\ ConvertedBy(wrapper.ret, "ret", prop.G, field, access.value)
       /\ access.op = "write" => access.status = "ok"
       /\ written # NoInst =>
            ConvertedBy(wrapper.inp, "in", SetterAnn, written, field)

\* C10 amended: the same for every G other than None; a G of None counts as
\* no annotation given and the accessor's own annotation is used instead.
C10_ExplicitPropertyAnnotationsNotNone ==
    (ExplicitProperty /\ prop.G.kind # "None") =>
       /\ access.op = "read" =>
            /\ access.status = "ok"
            /\ ConvertedBy(wrapper.ret, "ret", prop.G, field, access.value)
       /\ access.op = "write" => access.status = "ok"
       /\ written # NoInst =>
            ConvertedBy(wrapper.inp, "in", SetterAnn, written, field)

C10_Witness ==
    /\ ExplicitProperty
    /\ prop.G = AnnType("bool") /\ prop.S = AnnType("int")
    /\ prop.getAnn = AnnNone /\ prop.setAnn = AnnNone
    /\ written = Val("int")
    /\ access.op = "read"
    /\ Len(access.value.hist) = 2
    /\ access.value.hist[1].op = <<"in", "int">>
    /\ access.value.hist[2].op = <<"ret", "bool">>

C10_WitnessSetterOmitted ==
    /\ ExplicitProperty
    /\ prop.G = AnnType("bool") /\ prop.S = AnnNone
    /\ prop.setAnn = AnnType("int") /\ Registered(wrapper.inp, "int")
    /\ written = Val("bool")
    /\ field.hist # <<>>
    /\ field.hist[1].op = <<"in", "bool">>

\* An accessor of the property that calls for no conversion: it is absent,
\* or carries no annotation, or is annotated with a type the registry has no
\* converter for.
NothingToConvert(has, ann, convs) ==
    ~has \/ ann.kind = "None" \/ Unregistered(convs, ann)

\* C11: for every registry (one with a converter for NoneType included),
\* applying the wrapper to a property whose getter and setter are each
\* absent, unannotated or annotated with a type that has no registered
\* converter returns the identical property object.
C11_UnconvertedPropertyIsSame ==
    (/\ phase = "property" /\ prop.mode = "call"
     /\ NothingToConvert(prop.hasGet, prop.getAnn, wrapper.ret)
     /\ NothingToConvert(prop.hasSet, prop.setAnn, wrapper.inp))
    => cprop.kind = "same"

\* The members of an annotation: the type itself, NoneType for None, the
\* members of a union, nothing for a missing annotation.
Members(ann) ==
    IF ann.kind = "None" THEN {"NoneType"}
    ELSE {ann.args[j] : j \in 1..Len(ann.args)}

\* The registered types whose converters the wrapper chose for parameter i
\* of the function it was handed (none when it built no input conversion).
SelectedFor(i) ==
    IF wrapped.conversions = <<>> THEN {}
    ELSE {wrapped.conversions[i].convs[k].src :
            k \in 1..Len(wrapped.conversions[i].convs)}

\* The registered types an annotation names itself, and those some member of
\* it is a subclass of.
NamedTypes(convs, ann) == {t \in Members(ann) : Registered(convs, t)}
SuperTypes(convs, ann) ==
    {convs[i].src : i \in {k \in 1..Len(convs) :
                              \E t \in Members(ann) : IsSubclass(t, convs[k].src)}}

\* A function whose annotations are classes or unions of classes has been
\* handed to the wrapper.
WrappingClasses ==
    /\ Wrapping
    /\ \A i \in 1..Len(fn.params) : Members(fn.params[i].ann) \subseteq Classes
    /\ Members(fn.ret) \subseteq Classes

\* C19 as stated: a converter registered for T is chosen for a parameter
\* only when the annotation is exactly T or a union with T itself among its
\* members; an annotation, or a union member, that is only a subclass of T
\* chooses none, and when no annotation names a registered type the original
\* function is returned.  One rule for unions and for single types.
C19_ExactMatchOnly ==
    WrappingClasses =>
        /\ \A i \in 1..Len(fn.params) :
              SelectedFor(i) \subseteq NamedTypes(wrapper.inp, fn.params[i].ann)
        /\ ((\A i \in 1..Len(fn.params) :
                NamedTypes(wrapper.inp, fn.params[i].ann) = {})
            /\ NamedTypes(wrapper.ret, fn.ret) = {})
           => wrapped.kind = "same"

\* C19 amended: the rule differs.  An annotation that is a single type
\* chooses the converter registered for exactly that type, and none when
\* only a superclass of it is registered; a union chooses the converter of
\* every registered type that some member is a subclass of, the member's
\* superclasses included.  The original function is returned exactly when
\* nothing is chosen for any parameter or for the return value.
C19_ExactForTypesSubclassForUnions ==
    WrappingClasses =>
        /\ wrapped.kind # "TypeError"
        /\ \A i \in 1..Len(fn.params) :
              wrapped.kind \notin {"same", "return_only", "unbound_return_only"}
              => SelectedFor(i) =
                    IF fn.params[i].ann.kind = "union"
                    THEN SuperTypes(wrapper.inp, fn.params[i].ann)
                    ELSE NamedTypes(wrapper.inp, fn.params[i].ann)
        /\ wrapped.kind = "same" <=>
              /\ \A i \in 1..Len(fn.params) :
                    IF fn.params[i].ann.kind = "union"
                    THEN SuperTypes(wrapper.inp, fn.params[i].ann) = {}
                    ELSE NamedTypes(wrapper.inp, fn.params[i].ann) = {}
              /\ NamedTypes(wrapper.ret, fn.ret) = {}

\* A union whose member bool is only a subclass of the registered int
\* chooses int's converter.
C19_Witness ==
    /\ WrappingClasses
    /\ AnnA = AnnUnion("bool", "str")
    /\ NamedTypes(wrapper.inp, AnnA) = {}
    /\ SelectedFor(IndexA) = {"int"}
    /\ wrapped.kind = "input_only"

\* The single type bool chooses nothing when only int is registered.
C19_WitnessSingleType ==
    /\ WrappingClasses
    /\ AnnA = AnnType("bool")
    /\ Registered(wrapper.inp, "int") /\ ~Registered(wrapper.inp, "bool")
    /\ fn.ret = AnnEmpty
    /\ wrapped.kind = "same"

\* C20: on one wrapper, after any sequence of union lookups, a lookup of an
\* annotation looked up before returns the very dispatcher its first lookup
\* returned (so no lookup changed what another annotation gets), the
\* dispatcher a lookup returns is the one create_union_converter computes
\* afresh from the registry for that annotation, and the registry is still
\* the one the wrapper was constructed with.
C20_CachedLookupIsFresh ==
    (phase = "constructed" /\ lookups > 0) =>
        /\ \A e \in first : LookupResult(cacheIn, made, e.ann) = e
        /\ lookup.tc.kind # "TypeError" =>
              lookup.tc = create_union_converter(wrapper.inp, lookup.ann)
        /\ wrapper.inp = FactoryInit("in", ctor.inp).convs

\* The same, for unions all of whose members are classes.
C20_CachedLookupIsFreshForClasses ==
    (phase = "constructed" /\ lookups > 0) =>
        /\ \A e \in first : LookupResult(cacheIn, made, e.ann) = e
        /\ (lookup.tc.kind # "TypeError" /\ Members(lookup.ann) \subseteq Classes) =>
              lookup.tc = create_union_converter(wrapper.inp, lookup.ann)
        /\ wrapper.inp = FactoryInit("in", ctor.inp).convs

\* The step is a forwarder operation of the given kind.
FwdStep(op) == nops' = nops + 1 /\ fop'.op = op

\* C12: constructing a forwarder with positional and keyword arguments
\* creates exactly one new target instance, the one the target constructor
\* makes of those same arguments, resolve() of the new forwarder returns it,
\* and no two forwarders constructed this way share a target.
C12_ConstructCreatesOwnTarget ==
    /\ [][(FwdStep("construct") /\ fop'.status = "ok") =>
            LET new == TargetNew(_wrapped_type(fop'.cls), fop'.args)
            IN  /\ new.status = "ok"
                /\ heap' = Append(heap, new.obj)
                /\ Len(fwds') = Len(fwds) + 1
                /\ SubSeq(fwds', 1, Len(fwds)) = fwds
                /\ fwds'[Len(fwds')].cls = fop'.cls
                /\ resolve(fwds'[Len(fwds')]) = Len(heap')]_vars
    /\ [](\A i, j \in 1..Len(fwds) :
            (i # j /\ fwds[i].by = "construct" /\ fwds[j].by = "construct")
            => resolve(fwds[i]) # resolve(fwds[j]))

C12_Witness ==
    /\ Len(fwds) = 2
    /\ fwds[1].by = "construct" /\ fwds[2].by = "construct"
    /\ fwds[1].cls = "B" /\ fwds[2].cls = "B"
    /\ fop.op = "construct" /\ fop.fwd = 2
    /\ fop.args = Args(<<IntV(2)>>, {<<"b", IntV(1)>>})
    /\ heap[resolve(fwds[2])].a = IntV(2) /\ heap[resolve(fwds[2])].b = IntV(1)
    /\ heap[resolve(fwds[1])].a = IntV(1)

\* The value the last wrap was handed.
WrapArg == fop.args.pos[1]

\* C13: for every existing instance x of the target type, wrap(x) returns a
\* forwarder whose resolve() is x itself, and constructs no new target.
C13_WrapKeepsTheInstance ==
    (fop.op = "wrap" /\ IsTargetInstance(heap, WrapArg, _wrapped_type(fop.cls)))
    => /\ fop.status = "ok"
       /\ fop.made = 0
       /\ resolve(fwds[fop.fwd]) = WrapArg.n

\* C14: for every value v that is not an instance of the target type,
\* wrap(v) raises TypeError and produces no forwarder and no target.
C14_WrapRejectsOtherValues ==
    (fop.op = "wrap" /\ ~IsTargetInstance(heap, WrapArg, _wrapped_type(fop.cls)))
    => /\ fop.status = "TypeError"
       /\ fop.fwd = 0
       /\ fop.made = 0

\* The accessor of a property an operation uses.
Accessor(member, op) ==
    IF op = "get" THEN member.get ELSE IF op = "set" THEN member.set ELSE member.del

AccessorOps == {"get", "set", "del"}

\* The target the forwarder of the step's operation held before the step.
StepTarget == fwds[fop'.fwd].target

\* C15: a forwarded property has a getter, a setter, a deleter exactly when
\* the original property has it; reading, writing or deleting through a
\* missing accessor raises AttributeError, runs nothing and leaves every
\* target as it was; through an accessor the original has, the original's
\* accessor runs on the resolved target with the value given.
C15_AccessorsMirrorTheOriginal ==
    [][\A o \in AccessorOps :
          FwdStep(o) =>
             /\ \A n \in PropertyNames, x \in AccessorOps :
                   (Accessor(BMembers[n], x) = NoFunc)
                      <=> (Accessor(AMembers[n], x) = NoFunc)
             /\ IF Accessor(AMembers[fop'.name], o) = NoFunc
                THEN /\ fop'.status = "AttributeError"
                     /\ fop'.ran = <<>>
                     /\ heap' = heap
                ELSE fop'.ran = <<[f |-> Accessor(AMembers[fop'.name], o).f,
                                   self |-> RefV(StepTarget),
                                   args |-> fop'.args.pos]>>]_vars

C15_Witness ==
    /\ fop.op = "del" /\ fop.name = "bar"
    /\ fop.status = "AttributeError"
    /\ heap[fwds[fop.fwd].target].b = IntV(3)

C15_WitnessNoSetter ==
    /\ fop.op = "set" /\ fop.name = "no_set"
    /\ fop.status = "AttributeError"

C15_WitnessNoGetter ==
    /\ fop.op = "get" /\ fop.name = "no_get"
    /\ fop.status = "AttributeError"

\* The same operation made on the target itself: A's own member, used on
\* the target instance.
DirectOp(h, t, name, op, args) ==
    MemberOp(h, <<>>, AMembers[name], RefV(t), op, args)

C16_WitnessTwoForwarders ==
    /\ fop.op = "call" /\ fop.name = "foo" /\ fop.fwd = 2
    /\ fop.status = "ok" /\ fop.value = IntV(2)
    /\ heap[fwds[1].target].a = IntV(1)

\* C17: a method declared with forward.to(target_method) never runs the
\* stub's body: every call of it calls target_method, once, on the resolved
\* target with the arguments of the call, and gives its result or error.
C17_StubForwardsToTarget ==
    [][(FwdStep("call") /\ fop'.name = "foobar") =>
          LET d == DirectOp(heap, StepTarget, "foo", "call", fop'.args.pos)
          IN  /\ fop'.ran = <<[f |-> "foo", self |-> RefV(StepTarget),
                               args |-> fop'.args.pos]>>
              /\ fop'.status = d.status
              /\ fop'.value = d.value
              /\ heap' = d.heap]_vars

C17_Witness ==
    /\ fop.op = "call" /\ fop.name = "foobar"
    /\ fop.status = "ok"
    /\ fop.value = heap[fwds[fop.fwd].target].a
    /\ fop.value = IntV(2)

\* C18: when the body of a Forwarder subclass starts to be evaluated the
\* name forward is bound to the forwarding helper; after the class is
\* created its own namespace has no forward if the body left the binding as
\* injected, and has the class's own object under that name if the body
\* bound forward to something else.
C18_ForwardInjectedThenRemoved ==
    /\ cphase = "prepared" => NsGet(classdict, "forward") = Helper
    /\ cphase = "created" =>
          /\ cbody \in {"pass", "use", "same"} => ~NsHas(klass, "forward")
          /\ cbody = "def" => NsGet(klass, "forward") = OwnForward
          /\ cbody = "other" => NsGet(klass, "forward") = OtherHelper
          /\ cbody = "use" => NsGet(klass, "foo") = Member

C18_Witness ==
    /\ cphase = "created" /\ cbody = "def"
    /\ NsGet(klass, "forward") = OwnForward

C18_WitnessRemoved ==
    /\ cphase = "created" /\ cbody = "use"
    /\ klass = {<<"foo", Member>>}

====
